---- MODULE Spec2Model ----
(***************************************************************************)
(* Model of src/multi_read_write.py: the multi-PLC polling service.        *)
(*                                                                         *)
(* One control thread runs main_loop(); every cycle it spawns one          *)
(* plc_worker thread per configured PLC that has catalog tags, joins them, *)
(* sorts the collected results by tag index and writes them to SQL and to  *)
(* the in-memory worksheet.  At 02:00 the loop re-executes the script.     *)
(*                                                                         *)
(* The wall clock, the ping subprocess, the PLC drivers, pyodbc, the       *)
(* workbook save and os.execv are the environment: each call picks one of  *)
(* the outcomes the call can have (a value or a raised exception).         *)
(*                                                                         *)
(* Left out, as nothing here reads them: the tag_type and tag_dtype        *)
(* columns, the ReadTime/timestamp values and the log lines (log() catches *)
(* its own file errors).                                                   *)
(*                                                                         *)
(* purge_old_logs() never raises and touches nothing the cycle reads; its  *)
(* sweep of the log directory is explored on its own, under PurgeSpec.     *)
(***************************************************************************)
EXTENDS Integers, Sequences, FiniteSets, TLC

(* ------------------------------ bounds --------------------------------- *)
\* number of calendar dates the clock runs through
MaxDate == 2
\* restarts counted per calendar date (the re-exec loop at 02:00 is unbounded)
MaxRestarts == 2

(* ------------------------- program constants --------------------------- *)
\* default of the `retries` parameter of both read adapters
Retries == 3
\* a blank Excel cell / Python None, as a tag index
NoneIdx == -1
\* days_keep of the retention sweep
DaysKeep == 7
\* the worksheet rows the catalog loader is run on
SheetRows == 3

\* value of a result: Python None, a float, or a bool
NoneVal  == [t |-> "none"]
Float32  == [t |-> "float", s |-> "3.2"]
BoolTrue == [t |-> "bool", b |-> TRUE]
BoolFalse == [t |-> "bool", b |-> FALSE]

(* ------------------------------ clock ---------------------------------- *)
\* datetime.now() restricted to what the loop reads: date, hour, minute.
\* The clock walks 01:59 -> 02:00 -> 02:01 -> 03:00 -> 01:59 of the next date.
Slots == <<[hour |-> 1, minute |-> 59], [hour |-> 2, minute |-> 0],
           [hour |-> 2, minute |-> 1],  [hour |-> 3, minute |-> 0]>>

(* --------------------------- configuration ----------------------------- *)
\* plcs.items(): the registry in insertion order, name -> type
PlcOrder == <<"[A]", "[B]", "[C]">>
PlcNames == {PlcOrder[i] : i \in 1..Len(PlcOrder)}
PlcType(p) == CASE p = "[A]" -> "MICROLOGIX"
                [] p = "[B]" -> "COMPACTLOGIX"
                [] OTHER     -> "MICRO800"

Tag(r, n, i) == [row |-> r, tag_name |-> n, tag_index |-> i]

\* tag_map as load_excel_tags() returns it, for three worksheets:
\* unique indices; a blank index cell; one index used by two PLCs.
\* "[C]" is configured but has no catalog rows in any of them.
CatalogPlain == [p \in {"[A]", "[B]"} |->
                   IF p = "[A]" THEN <<Tag(2, "N7:0", 10), Tag(3, "N7:1", 11)>>
                                ELSE <<Tag(4, "Flow", 5)>>]
CatalogBlank == [p \in {"[A]", "[B]"} |->
                   IF p = "[A]" THEN <<Tag(2, "N7:0", 10), Tag(3, "N7:1", NoneIdx)>>
                                ELSE <<Tag(4, "Flow", 5)>>]
CatalogDup   == [p \in {"[A]", "[B]"} |->
                   IF p = "[A]" THEN <<Tag(2, "N7:0", 10), Tag(3, "N7:1", 11)>>
                                ELSE <<Tag(4, "Flow", 10)>>]
Catalogs == {CatalogPlain, CatalogBlank, CatalogDup}

VARIABLES
  date, slot,          \* the wall clock
  tag_map,             \* catalog loaded at startup
  pc,                  \* position of the control thread in main_loop
  termCause,           \* the uncaught exception that ended the process, or "none"
  last_restart_date,   \* main_loop local; 0 is None
  spawn_i,             \* position of the spawn loop in plcs.items()
  threads,             \* PLC names whose worker thread was started this cycle
  all_results,         \* the shared result bucket / the sorted list
  write_i,             \* position of the write loop in all_results
  conn,                \* "closed" | "open": this process's SQL connection
  sql_tx,              \* rows executed on the open connection, not committed
  sql_cycle,           \* rows committed by the current cycle
  ws_dirty,            \* cell writes made to the worksheet in memory since the last save
  wpc,                 \* per worker: "none","ping","read","emit","done","crashed"
  probe,               \* per worker: what the ping subprocess did, or "unset"
  attempts,            \* per worker: read attempts made this cycle
  faults,              \* per worker: how many of them raised
  results,             \* per worker: the list it is appending
  emit_i,              \* per worker: position in `results`
  restartCount,        \* history: restarts triggered on the current date
  saves,               \* the wb.save calls of this cycle that returned
  skip_log,            \* the PLCs this cycle logged "[SKIP] No tags configured" for
  passedTwo,           \* history: the current date's 02:00 minute ended with the loop inside a cycle
  log_dir,             \* the files of the log directory
  purge_pc,            \* position of purge_old_logs: "idle", "loop", "done"
  purge_now,           \* datetime.now() as the sweep reads it: day and time of day
  purge_listed,        \* what os.listdir returned to the sweep
  purge_todo,          \* the listed files the for loop has not reached yet
  environ,             \* os.environ as load_plc_config_from_env finds it
  env_todo,            \* the keys os.environ.items() has not yielded yet
  plcs,                \* the registry under construction
  warned,              \* the raw names logged with "[WARN] Missing IP"
  disc_pc,             \* position of load_plc_config_from_env: "idle", "loop", "done"
  sheet,               \* the worksheet rows from row 2 on, as load_excel_tags finds them
  cat_row,             \* the loader's row
  cat_map,             \* the tag_map under construction
  cat_pc,              \* position of load_excel_tags: "idle", "loop", "done"
  purge_err            \* what the sweep's handler caught: nothing, os.listdir, or os.remove of a file

clock   == <<date, slot>>
mainv   == <<pc, termCause, last_restart_date, spawn_i, threads, write_i, skip_log>>
sinkv   == <<conn, sql_tx, sql_cycle, ws_dirty, saves>>
workerv == <<wpc, probe, attempts, faults, results, emit_i>>
histv   == <<restartCount, passedTwo>>
purgev  == <<log_dir, purge_pc, purge_now, purge_listed, purge_todo, purge_err>>
discv   == <<environ, env_todo, plcs, warned, disc_pc>>
catv    == <<sheet, cat_row, cat_map, cat_pc>>
vars    == <<date, slot, tag_map, pc, termCause, last_restart_date, spawn_i,
             threads, all_results, write_i, conn, sql_tx, sql_cycle, ws_dirty,
             wpc, probe, attempts, faults, results, emit_i, restartCount, passedTwo,
             saves, skip_log, log_dir, purge_pc, purge_now, purge_listed, purge_todo, purge_err,
             environ, env_todo, plcs, warned, disc_pc, sheet, cat_row, cat_map, cat_pc>>

Now == Slots[slot]

(* ------------------------------ helpers -------------------------------- *)
Min(a, b) == IF a <= b THEN a ELSE b
Range(s) == {s[i] : i \in 1..Len(s)}

Result(p, v, st, t) == [plc |-> p, value |-> v, status |-> st, tag |-> t]

\* what the loop reads of a configured PLC's catalog
HasTags(p) == p \in DOMAIN tag_map
TagsOf(p)  == IF HasTags(p) THEN tag_map[p] ELSE <<>>
Workers    == {p \in PlcNames : HasTags(p)}

(* ------------------------------- ping ---------------------------------- *)
\* the ping subprocess: a reply with TTL, output without TTL, or
\* subprocess.run raising
PingOutcomes == {"ttl", "nottl", "raise"}
\* mutant of ping: the handler around subprocess.run is missing
ping_uncaught(outcome) ==
  IF outcome = "ttl" THEN "True" ELSE IF outcome = "nottl" THEN "False" ELSE "raise"

\* ping(ip): "TTL" in res.stdout; an exception is logged and gives False.
\* "raise" would be an exception leaving ping()
ping(outcome) == IF outcome = "ttl" THEN "True" ELSE "False"

\* mutant of OfflineResults: the offline loop starts at the second tag
OfflineResultsSkipFirst(p, tag_list) ==
  [i \in 1..(Len(tag_list) - 1) |-> Result(p, NoneVal, "OFFLINE", tag_list[i + 1])]

\* plc_worker, offline branch: one dict per tag, appended as it is built
OfflineResults(p, tag_list) ==
  [i \in 1..Len(tag_list) |-> Result(p, NoneVal, "OFFLINE", tag_list[i])]

(* --------------------------- read adapters ----------------------------- *)
\* the value both adapters return once every attempt has raised
NoResponse(tag_list) ==
  [i \in 1..Len(tag_list) |-> Result("", NoneVal, "NO RESPONSE", tag_list[i])]

\* pycomm3 Tag objects (value, error; "" is error None)
SlcTags == {[value |-> Float32, error |-> ""], [value |-> NoneVal, error |-> "Timeout"]}
\* pylogix Response objects (Value, Status)
LogixResponses == {[Value |-> BoolTrue, Status |-> "Success"],
                   [Value |-> BoolFalse, Status |-> "Success"],
                   [Value |-> NoneVal,  Status |-> "Connection failure"]}

\* all lists over S of length 0..n
ListsUpTo(S, n) == UNION {[1..k -> S] : k \in 0..n}

\* what one driver call can give: an exception (raised by the call or while
\* the results are built), or a response list that may be shorter or longer
\* than the tag list (a single pycomm3 Tag is wrapped into a list of one)
ReadOutcomes(p) ==
  {[raised |-> TRUE, resp |-> <<>>]} \cup
  {[raised |-> FALSE, resp |-> l] :
     l \in ListsUpTo(IF PlcType(p) = "MICROLOGIX" THEN SlcTags ELSE LogixResponses,
                     Len(TagsOf(p)) + 1)}

\* for r, t in zip(resp_list, tag_list): zip stops at the shorter list
ZipLen(resp_list, tag_list) == Min(Len(resp_list), Len(tag_list))

\* read_micro_logix, body of one successful attempt
MicroResults(resp_list, tag_list) ==
  [i \in 1..ZipLen(resp_list, tag_list) |->
     Result("", resp_list[i].value,
            IF resp_list[i].error = "" THEN "OK" ELSE resp_list[i].error,
            tag_list[i])]

\* read_logix, body of one successful attempt
LogixResults(resp_list, tag_list) ==
  [i \in 1..ZipLen(resp_list, tag_list) |->
     Result("", resp_list[i].Value, resp_list[i].Status, tag_list[i])]

\* plc_worker's dispatch on plc_type
AdapterResults(p, resp_list, tag_list) ==
  IF PlcType(p) = "MICROLOGIX" THEN MicroResults(resp_list, tag_list)
                               ELSE LogixResults(resp_list, tag_list)

\* mutant of MoreAttempts: range(retries + 1)
MoreAttemptsOffByOne(made) == made < Retries + 1

\* for attempt in range(retries): is there another attempt after `made` failures
MoreAttempts(made) == made < Retries

(* ------------------------------- sort ---------------------------------- *)
\* sorted(all_results, key=tag_index) compares keys with <; None is not
\* comparable with anything, so any list of two or more results holding a
\* blank index raises TypeError
SortRaises(s) == Len(s) >= 2 /\ \E i \in 1..Len(s) : s[i].tag.tag_index = NoneIdx

\* stable insertion: r goes after every element whose key is <= its key
InsertByIndex(s, r) ==
  LET k == Cardinality({i \in 1..Len(s) : s[i].tag.tag_index <= r.tag.tag_index})
  IN  SubSeq(s, 1, k) \o <<r>> \o SubSeq(s, k + 1, Len(s))

RECURSIVE SortedPrefix(_, _)
SortedPrefix(s, n) ==
  IF n = 0 THEN <<>> ELSE InsertByIndex(SortedPrefix(s, n - 1), s[n])

\* mutant of sorted: the bucket is written in append order
unsorted(s) == s

\* sorted(all_results, key=lambda r: r["tag"]["tag_index"])
sorted(s) == SortedPrefix(s, Len(s))

(* ---------------------------- restart check ---------------------------- *)
\* the condition of the daily restart `if`
RestartDue(now, today, last) ==
  now.hour = 2 /\ now.minute = 0 /\ (last = 0 \/ last # today)

(* ------------------------------ the sinks ------------------------------ *)
\* Python's str(): a bool prints as its name, a float as its repr, an int
\* (here 0 or 1) as its digit, None as "None"
PyStr(v) == CASE v.t = "bool"  -> (IF v.b THEN "True" ELSE "False")
              [] v.t = "int"   -> (IF v.n = 1 THEN "1" ELSE "0")
              [] v.t = "float" -> v.s
              [] OTHER         -> "None"

\* excel_value of the write loop: bool -> 1/0, anything else unchanged
excel_value(v) == IF v.t = "bool" THEN [t |-> "int", n |-> IF v.b THEN 1 ELSE 0] ELSE v

\* the SQL value without the isinstance(value, bool) branch
value_str_nobool(v) == IF v.t = "none" THEN "NULL" ELSE PyStr(v)

\* value_str of the write loop: bool -> str(excel_value), None -> None (SQL
\* NULL), else str(value)
value_str(v) == IF v.t = "bool" THEN PyStr(excel_value(v))
                ELSE IF v.t = "none" THEN "NULL" ELSE PyStr(v)

\* the parameters of cursor.execute(insert_sql, ...)
SqlRow(r) == [PLC |-> r.plc, TagIndex |-> r.tag.tag_index, TagName |-> r.tag.tag_name,
              TagValue |-> value_str(r.value), Status |-> r.status]

\* the cells the write loop sets at the tag's source row (the timestamp cell
\* takes the scan's ts, the same for every row of a cycle)
CellWrite(r) == [row |-> r.tag.row, value |-> excel_value(r.value), status |-> r.status]

(* ------------------------------- Init ---------------------------------- *)
\* the handler of purge_old_logs has caught nothing
NoError == [kind |-> "none"]
\* no worker thread exists: the state of the worker variables between cycles
NoThreads == <<[p \in PlcNames |-> "none"], [p \in PlcNames |-> "unset"],
               [p \in PlcNames |-> 0], [p \in PlcNames |-> <<>>],
               [p \in PlcNames |-> 1], [p \in PlcNames |-> 0]>>

\* the state at process start, but for the catalog and the log directory
MainInit ==
  /\ date = 1 /\ slot = 1
  /\ pc = "boot" /\ termCause = "none" /\ last_restart_date = 0
  /\ spawn_i = 1 /\ threads = <<>> /\ all_results = <<>> /\ write_i = 1
  /\ conn = "closed" /\ sql_tx = <<>> /\ sql_cycle = <<>>
  /\ ws_dirty = <<>>
  /\ wpc = NoThreads[1] /\ probe = NoThreads[2] /\ attempts = NoThreads[3]
  /\ results = NoThreads[4] /\ emit_i = NoThreads[5] /\ faults = NoThreads[6]
  /\ skip_log = {} /\ saves = 0
  /\ restartCount = 0
  /\ passedTwo = FALSE

\* the two loaders of main_loop's first lines are not running
LoadersAtRest ==
  /\ environ = <<>> /\ env_todo = {} /\ plcs = <<>> /\ warned = {} /\ disc_pc = "idle"
  /\ sheet = <<>> /\ cat_row = 2 /\ cat_map = <<>> /\ cat_pc = "idle"

Init ==
  /\ MainInit
  /\ tag_map \in Catalogs
  /\ log_dir = {} /\ purge_pc = "idle" /\ purge_now = [day |-> 0, tod |-> 0]
  /\ purge_listed = {} /\ purge_todo = {} /\ purge_err = NoError
  /\ LoadersAtRest

(* ------------------------------ the clock ------------------------------ *)
Running == pc # "terminated"
\* the control thread is between the restart check and the end of the idle pause
InCycle == pc \in {"scan", "spawn", "join", "sort", "write", "commit", "save", "sleep"}

\* time passes under the running program, at any point of it
Tick ==
  /\ Running
  /\ \/ /\ slot < Len(Slots)
        /\ slot' = slot + 1 /\ date' = date
        /\ passedTwo' = (passedTwo \/ (Now.hour = 2 /\ Now.minute = 0 /\ InCycle))
        /\ UNCHANGED restartCount
     \/ /\ slot = Len(Slots) /\ date < MaxDate
        /\ slot' = 1 /\ date' = date + 1
        /\ passedTwo' = FALSE /\ restartCount' = 0
  /\ UNCHANGED <<purgev, discv, catv, tag_map, mainv, all_results, sinkv, workerv>>

(* --------------------------- control thread ---------------------------- *)
\* an exception nothing catches leaves main_loop and ends the process
Raise(cause) ==
  /\ pc' = "terminated"
  /\ termCause' = cause

\* main_loop before `while True`: load the registry and the catalog
Boot ==
  /\ pc = "boot"
  /\ pc' = "check"
  /\ last_restart_date' = 0
  /\ UNCHANGED <<purgev, discv, catv, skip_log, clock, tag_map, termCause, spawn_i, threads, write_i,
                 all_results, sinkv, workerv, histv>>

\* top of the loop: the daily restart check, then os.execv or on to the scan
RestartCheck ==
  /\ pc = "check"
  /\ IF RestartDue(Now, date, last_restart_date)
     THEN /\ restartCount < MaxRestarts
          /\ restartCount' = restartCount + 1
          /\ last_restart_date' = date
          /\ \/ pc' = "boot" /\ termCause' = termCause   \* the new image starts
             \/ Raise("execv")                           \* os.execv raised OSError
     ELSE /\ pc' = "scan"
          /\ UNCHANGED <<termCause, last_restart_date, restartCount>>
  /\ UNCHANGED <<purgev, discv, catv, skip_log, clock, tag_map, spawn_i, threads, write_i, all_results,
                 sinkv, workerv, passedTwo>>

\* purge_old_logs (never raises), NEW SCAN, get_sql_connection, empty bucket
StartScan ==
  /\ pc = "scan"
  /\ \/ /\ conn' = "open"
        /\ pc' = "spawn" /\ spawn_i' = 1
        /\ UNCHANGED termCause
     \/ /\ Raise("sql_connect")
        /\ UNCHANGED <<conn, spawn_i>>
  /\ all_results' = <<>> /\ threads' = <<>> /\ skip_log' = {}
  /\ UNCHANGED <<purgev, discv, catv, saves, clock, tag_map, last_restart_date, write_i, sql_tx, sql_cycle,
                 ws_dirty, workerv, histv>>

\* mutant of Spawn: a thread is started for every configured PLC
SpawnAll ==
  /\ pc = "spawn"
  /\ LET p == PlcOrder[spawn_i] IN
       /\ wpc' = [wpc EXCEPT ![p] = "ping"]
       /\ threads' = Append(threads, p)
       /\ UNCHANGED skip_log
  /\ spawn_i' = spawn_i + 1
  /\ pc' = IF spawn_i = Len(PlcOrder) THEN "join" ELSE "spawn"
  /\ UNCHANGED <<purgev, discv, catv, clock, tag_map, termCause, last_restart_date, write_i,
                 all_results, sinkv, probe, attempts, faults, results, emit_i, histv>>

\* one iteration of `for plc_name, plc_info in plcs.items()`
Spawn ==
  /\ pc = "spawn"
  /\ LET p == PlcOrder[spawn_i] IN
       IF HasTags(p)
       THEN /\ wpc' = [wpc EXCEPT ![p] = "ping"]
            /\ threads' = Append(threads, p)
            /\ UNCHANGED skip_log
       ELSE /\ skip_log' = skip_log \cup {p}       \* [SKIP] No tags configured
            /\ UNCHANGED <<wpc, threads>>
  /\ spawn_i' = spawn_i + 1
  /\ pc' = IF spawn_i = Len(PlcOrder) THEN "join" ELSE "spawn"
  /\ UNCHANGED <<purgev, discv, catv, clock, tag_map, termCause, last_restart_date, write_i,
                 all_results, sinkv, probe, attempts, faults, results, emit_i, histv>>

\* mutant of Join: only the first thread is joined
JoinFirstOnly ==
  /\ pc = "join"
  /\ threads # <<>> => wpc[threads[1]] \in {"done", "crashed"}
  /\ pc' = "sort"
  /\ UNCHANGED <<purgev, discv, catv, skip_log, clock, tag_map, termCause, last_restart_date, spawn_i, threads,
                 write_i, all_results, sinkv, workerv, histv>>

\* for t in threads: t.join()
Join ==
  /\ pc = "join"
  /\ \A p \in Range(threads) : wpc[p] \in {"done", "crashed"}
  /\ pc' = "sort"
  /\ UNCHANGED <<purgev, discv, catv, skip_log, clock, tag_map, termCause, last_restart_date, spawn_i, threads,
                 write_i, all_results, sinkv, workerv, histv>>

\* all_results = sorted(...)
Sort ==
  /\ pc = "sort"
  /\ IF SortRaises(all_results)
     THEN Raise("sort") /\ UNCHANGED <<all_results, write_i>>
     ELSE /\ all_results' = sorted(all_results)
          /\ write_i' = 1
          /\ pc' = IF Len(all_results) = 0 THEN "commit" ELSE "write"
          /\ UNCHANGED termCause
  /\ UNCHANGED <<purgev, discv, catv, skip_log, clock, tag_map, last_restart_date, spawn_i, threads,
                 sinkv, workerv, histv>>

\* mutant of Write: the connection is in autocommit mode, every executed
\* insert is in the store at once
WriteAutocommit ==
  /\ pc = "write"
  /\ LET r == all_results[write_i] IN
       /\ ws_dirty' = Append(ws_dirty, CellWrite(r))
       /\ \/ /\ sql_cycle' = Append(sql_cycle, SqlRow(r))
             /\ write_i' = write_i + 1
             /\ pc' = IF write_i = Len(all_results) THEN "commit" ELSE "write"
             /\ UNCHANGED termCause
          \/ /\ Raise("sql_insert")
             /\ UNCHANGED <<sql_cycle, write_i>>
  /\ UNCHANGED <<purgev, discv, catv, saves, skip_log, clock, tag_map, last_restart_date, spawn_i,
                 threads, all_results, conn, sql_tx, workerv, histv>>

\* mutant of Write: the workbook is saved after each row's cells
WriteSaveEachRow ==
  /\ pc = "write"
  /\ LET r == all_results[write_i] IN
       /\ ws_dirty' = <<>> /\ saves' = saves + 1
       /\ \/ /\ sql_tx' = Append(sql_tx, SqlRow(r))
             /\ write_i' = write_i + 1
             /\ pc' = IF write_i = Len(all_results) THEN "commit" ELSE "write"
             /\ UNCHANGED termCause
          \/ /\ Raise("sql_insert")
             /\ UNCHANGED <<sql_tx, write_i>>
  /\ UNCHANGED <<purgev, discv, catv, skip_log, clock, tag_map, last_restart_date, spawn_i, threads, all_results,
                 conn, sql_cycle, workerv, histv>>

\* one iteration of `for r in all_results`: three cells, then cursor.execute
Write ==
  /\ pc = "write"
  /\ LET r == all_results[write_i] IN
       /\ ws_dirty' = Append(ws_dirty, CellWrite(r))
       /\ \/ /\ sql_tx' = Append(sql_tx, SqlRow(r))
             /\ write_i' = write_i + 1
             /\ pc' = IF write_i = Len(all_results) THEN "commit" ELSE "write"
             /\ UNCHANGED termCause
          \/ /\ Raise("sql_insert")
             /\ UNCHANGED <<sql_tx, write_i>>
  /\ UNCHANGED <<purgev, discv, catv, saves, skip_log, clock, tag_map, last_restart_date, spawn_i, threads, all_results,
                 conn, sql_cycle, workerv, histv>>

\* mutant of Commit: the transaction is committed, the connection stays open
CommitNoClose ==
  /\ pc = "commit"
  /\ \/ /\ sql_cycle' = sql_tx /\ sql_tx' = <<>>
        /\ pc' = "save"
        /\ UNCHANGED <<termCause, conn>>
     \/ /\ Raise("sql_commit")
        /\ UNCHANGED <<sql_cycle, sql_tx, conn>>
  /\ UNCHANGED <<purgev, discv, catv, saves, skip_log, clock, tag_map, last_restart_date, spawn_i, threads, write_i,
                 all_results, ws_dirty, workerv, histv>>

\* conn.commit(); cursor.close(); conn.close()
Commit ==
  /\ pc = "commit"
  /\ \/ /\ sql_cycle' = sql_tx /\ sql_tx' = <<>> /\ conn' = "closed"
        /\ pc' = "save"
        /\ UNCHANGED termCause
     \/ /\ Raise("sql_commit")
        /\ UNCHANGED <<sql_cycle, sql_tx, conn>>
  /\ UNCHANGED <<purgev, discv, catv, saves, skip_log, clock, tag_map, last_restart_date, spawn_i, threads, write_i,
                 all_results, ws_dirty, workerv, histv>>

\* wb.save(...)
Save ==
  /\ pc = "save"
  /\ \/ pc' = "sleep" /\ ws_dirty' = <<>> /\ saves' = saves + 1 /\ UNCHANGED termCause
     \/ Raise("save") /\ UNCHANGED <<ws_dirty, saves>>
  /\ UNCHANGED <<purgev, discv, catv, skip_log, clock, tag_map, last_restart_date, spawn_i, threads, write_i,
                 all_results, conn, sql_tx, sql_cycle, workerv, histv>>

\* del all_results; del threads; gc.collect(); time.sleep(LOOP_INTERVAL)
Sleep ==
  /\ pc = "sleep"
  /\ pc' = "check"
  /\ all_results' = <<>> /\ threads' = <<>> /\ spawn_i' = 1 /\ write_i' = 1
  /\ skip_log' = {} /\ saves' = 0
  /\ sql_cycle' = <<>>
  /\ wpc' = NoThreads[1] /\ probe' = NoThreads[2] /\ attempts' = NoThreads[3]
  /\ results' = NoThreads[4] /\ emit_i' = NoThreads[5] /\ faults' = NoThreads[6]
  /\ UNCHANGED <<purgev, discv, catv, clock, tag_map, termCause, last_restart_date, conn, sql_tx, ws_dirty, histv>>

(* ---------------------------- worker threads --------------------------- *)
\* plc_worker up to the first append: ping, and the OFFLINE list when it fails
Ping(p) ==
  /\ Running /\ wpc[p] = "ping"
  /\ \E o \in PingOutcomes :
       CASE ping(o) = "True" ->
              /\ probe' = [probe EXCEPT ![p] = o]
              /\ wpc' = [wpc EXCEPT ![p] = "read"]
              /\ UNCHANGED results
         [] ping(o) = "False" ->
              /\ probe' = [probe EXCEPT ![p] = o]
              /\ results' = [results EXCEPT ![p] = OfflineResults(p, TagsOf(p))]
              /\ wpc' = [wpc EXCEPT ![p] = "emit"]
         [] OTHER ->      \* plc_worker has no handler of its own: the thread dies
              /\ probe' = [probe EXCEPT ![p] = o]
              /\ wpc' = [wpc EXCEPT ![p] = "crashed"]
              /\ UNCHANGED results
  /\ UNCHANGED <<purgev, discv, catv, clock, tag_map, mainv, all_results, sinkv, attempts, faults, emit_i, histv>>

\* mutant of ReadAttempt: a successful attempt does not return, the loop
\* goes on while attempts are left
ReadAttemptNoReturn(p) ==
  /\ Running /\ wpc[p] = "read"
  /\ attempts' = [attempts EXCEPT ![p] = @ + 1]
  /\ \E o \in ReadOutcomes(p) :
       /\ IF o.raised
          THEN /\ faults' = [faults EXCEPT ![p] = @ + 1]
               /\ results' = IF MoreAttempts(attempts[p] + 1) \/ results[p] # <<>>
                              THEN results
                              ELSE [results EXCEPT ![p] = NoResponse(TagsOf(p))]
          ELSE /\ results' = [results EXCEPT ![p] = AdapterResults(p, o.resp, TagsOf(p))]
               /\ UNCHANGED faults
       /\ wpc' = IF MoreAttempts(attempts[p] + 1) THEN wpc
                                                  ELSE [wpc EXCEPT ![p] = "emit"]
  /\ UNCHANGED <<purgev, discv, catv, clock, tag_map, mainv, all_results, sinkv, probe, emit_i, histv>>

\* one attempt of the adapter's retry loop
ReadAttempt(p) ==
  /\ Running /\ wpc[p] = "read"
  /\ attempts' = [attempts EXCEPT ![p] = @ + 1]
  /\ \E o \in ReadOutcomes(p) :
       IF o.raised      \* caught by the attempt's handler: log, sleep, next attempt
       THEN /\ faults' = [faults EXCEPT ![p] = @ + 1]
            /\ IF MoreAttempts(attempts[p] + 1)
               THEN UNCHANGED <<wpc, results>>
               ELSE /\ results' = [results EXCEPT ![p] = NoResponse(TagsOf(p))]
                    /\ wpc' = [wpc EXCEPT ![p] = "emit"]
       ELSE /\ results' = [results EXCEPT ![p] = AdapterResults(p, o.resp, TagsOf(p))]
            /\ wpc' = [wpc EXCEPT ![p] = "emit"]
            /\ UNCHANGED faults
  /\ UNCHANGED <<purgev, discv, catv, clock, tag_map, mainv, all_results, sinkv, probe, emit_i, histv>>

\* mutant of Emit: every worker stamps with the name the first thread
\* was started with
EmitStampFirst(p) ==
  /\ Running /\ wpc[p] = "emit"
  /\ IF emit_i[p] > Len(results[p])
     THEN /\ wpc' = [wpc EXCEPT ![p] = "done"]
          /\ UNCHANGED <<all_results, emit_i>>
     ELSE /\ all_results' = Append(all_results,
                                   [results[p][emit_i[p]] EXCEPT !.plc = threads[1]])
          /\ emit_i' = [emit_i EXCEPT ![p] = @ + 1]
          /\ UNCHANGED wpc
  /\ UNCHANGED <<purgev, discv, catv, clock, tag_map, mainv, sinkv, probe, attempts, faults, results, histv>>

\* mutant of Emit: the result is appended as the adapter returned it,
\* without the worker's PLC name
EmitUnstamped(p) ==
  /\ Running /\ wpc[p] = "emit"
  /\ IF emit_i[p] > Len(results[p])
     THEN /\ wpc' = [wpc EXCEPT ![p] = "done"]
          /\ UNCHANGED <<all_results, emit_i>>
     ELSE /\ all_results' = Append(all_results, results[p][emit_i[p]])
          /\ emit_i' = [emit_i EXCEPT ![p] = @ + 1]
          /\ UNCHANGED wpc
  /\ UNCHANGED <<purgev, discv, catv, clock, tag_map, mainv, sinkv, probe, attempts, faults, results, histv>>

\* one result_bucket.append(...), stamped with the worker's PLC name; the
\* worker returns after the last one
Emit(p) ==
  /\ Running /\ wpc[p] = "emit"
  /\ IF emit_i[p] > Len(results[p])
     THEN /\ wpc' = [wpc EXCEPT ![p] = "done"]
          /\ UNCHANGED <<all_results, emit_i>>
     ELSE /\ all_results' = Append(all_results, [results[p][emit_i[p]] EXCEPT !.plc = p])
          /\ emit_i' = [emit_i EXCEPT ![p] = @ + 1]
          /\ UNCHANGED wpc
  /\ UNCHANGED <<purgev, discv, catv, clock, tag_map, mainv, sinkv, probe, attempts, faults, results, histv>>

Next ==
  \/ Tick
  \/ Boot
  \/ RestartCheck
  \/ StartScan
  \/ Spawn
  \/ Join
  \/ Sort
  \/ Write
  \/ Commit
  \/ Save
  \/ Sleep
  \/ \E p \in PlcNames : Ping(p)
  \/ \E p \in PlcNames : ReadAttempt(p)
  \/ \E p \in PlcNames : Emit(p)

Spec == Init /\ [][Next]_vars

\* the scheduler runs every thread that can run, and time passes
LiveSpec ==
  /\ Spec
  /\ WF_vars(Tick)
  /\ WF_vars(Boot \/ RestartCheck \/ StartScan \/ Spawn \/ Join \/ Sort
               \/ Write \/ Commit \/ Save \/ Sleep)
  /\ \A p \in PlcNames : WF_vars(Ping(p) \/ ReadAttempt(p) \/ Emit(p))

(***************************************************************************)
(* purge_old_logs: the retention sweep of the log directory                *)
(***************************************************************************)
\* a file of the log directory: whether its name is plc_reader_*.log, and
\* the text between prefix and suffix (a %Y%m%d day, or something else)
LogFile(d) == [named |-> TRUE, isdate |-> TRUE, day |-> d]
BadFile    == [named |-> TRUE, isdate |-> FALSE, day |-> 0]
OtherFile  == [named |-> FALSE, isdate |-> TRUE, day |-> 1]
PartitionDays == {1, 3, 9, 10}
SweepDays == {10, 11}
AllFiles == {LogFile(d) : d \in PartitionDays} \cup {BadFile, OtherFile}

\* a datetime: the day, and 0 for 00:00:00.000000 or 1 for any later time
Midnight(d) == [day |-> d, tod |-> 0]
\* datetime.strptime(date_str, "%Y%m%d") raises ValueError
ParseFails(f) == ~f.isdate
strptime(f) == Midnight(f.day)
\* datetime < datetime
Before(a, b) == a.day < b.day \/ (a.day = b.day /\ a.tod < b.tod)
\* now - timedelta(days=days_keep)
cutoff(now) == [day |-> now.day - DaysKeep, tod |-> now.tod]
\* the sweep reaches os.remove for this file
Expired(f, now) == f.named /\ ~ParseFails(f) /\ Before(strptime(f), cutoff(now))

PurgeInit ==
  /\ MainInit
  /\ tag_map = CatalogPlain
  /\ log_dir \in SUBSET AllFiles
  /\ purge_now \in [day : SweepDays, tod : {0, 1}]
  /\ purge_pc = "idle"
  /\ purge_listed = {} /\ purge_todo = {} /\ purge_err = NoError
  /\ LoadersAtRest

\* cutoff is computed, then os.listdir answers or raises into the handler
PurgeList ==
  /\ purge_pc = "idle"
  /\ \/ /\ purge_listed' = log_dir /\ purge_todo' = log_dir
        /\ purge_pc' = "loop" /\ UNCHANGED purge_err
     \/ /\ purge_err' = [kind |-> "listdir"] /\ purge_pc' = "done"
        /\ UNCHANGED <<purge_listed, purge_todo>>
  /\ UNCHANGED <<log_dir, purge_now, clock, discv, catv, tag_map, mainv, all_results, sinkv,
                 workerv, histv>>

\* the file is kept: the name does not match, the date does not parse, or
\* the date is not before the cutoff
PurgeKeep(f) ==
  /\ purge_pc = "loop" /\ f \in purge_todo
  /\ ~Expired(f, purge_now)
  /\ purge_todo' = purge_todo \ {f}
  /\ UNCHANGED <<log_dir, purge_pc, purge_now, purge_listed, purge_err, clock, discv, catv,
                 tag_map, mainv, all_results, sinkv, workerv, histv>>

\* os.remove deletes the file, or raises into the handler around the loop
PurgeRemove(f) ==
  /\ purge_pc = "loop" /\ f \in purge_todo
  /\ Expired(f, purge_now)
  /\ \/ /\ log_dir' = log_dir \ {f}
        /\ purge_todo' = purge_todo \ {f}
        /\ UNCHANGED <<purge_pc, purge_err>>
     \/ /\ purge_err' = [kind |-> "remove", file |-> f] /\ purge_pc' = "done"
        /\ UNCHANGED <<log_dir, purge_todo>>
  /\ UNCHANGED <<purge_now, purge_listed, clock, discv, catv, tag_map, mainv, all_results,
                 sinkv, workerv, histv>>

\* the for loop runs out of files
PurgeReturn ==
  /\ purge_pc = "loop" /\ purge_todo = {}
  /\ purge_pc' = "done"
  /\ UNCHANGED <<log_dir, purge_now, purge_listed, purge_todo, purge_err, clock, discv, catv,
                 tag_map, mainv, all_results, sinkv, workerv, histv>>

PurgeNext ==
  \/ PurgeList
  \/ \E f \in AllFiles : PurgeKeep(f)
  \/ \E f \in AllFiles : PurgeRemove(f)
  \/ PurgeReturn

PurgeSpec == PurgeInit /\ [][PurgeNext]_vars

(***************************************************************************)
(* load_plc_config_from_env: device discovery                              *)
(***************************************************************************)
\* A name or key is a sequence of pieces of text; the pieces are chosen so
\* that no str.replace, startswith or endswith below matches across a
\* piece boundary.  Keys are upper case, as os.environ holds them where
\* `ping -n` runs.
DeviceNames == {<<"P1">>, <<"::", "[", "P2", "]">>, <<"BOILER_", "PLC_", "3">>}
TypeKey(n) == <<"PLC_">> \o n \o <<"_TYPE">>
IpKey(n)   == <<"PLC_">> \o n \o <<"_IP">>
\* the values an address key can hold
IpTexts == {"", " ", "10.0.0.7 "}
TypeText == "MicroLogix "

\* str.strip() on the texts above
strip(v) == CASE v = " " -> ""
              [] v = "10.0.0.7 " -> "10.0.0.7"
              [] v = "MicroLogix " -> "MicroLogix"
              [] v = " Flow " -> "Flow"
              [] OTHER -> v
\* str.upper()
upper(v) == IF v = "MicroLogix" THEN "MICROLOGIX" ELSE v

\* name.replace(old, ""): every occurrence goes, wherever it stands
RemoveAll(name, old) == SelectSeq(name, LAMBDA t : t # old)

\* mutant of normalize_plc_name: the cell is taken as it is
plain_plc_name(name) == name

\* normalize_plc_name; <<>> is both the empty text and None
normalize_plc_name(name) ==
  IF name = <<>> THEN <<>>
  ELSE LET bare == RemoveAll(RemoveAll(name, "::"), " ")
       IN  IF bare # <<>> /\ bare[1] = "[" THEN bare ELSE <<"[">> \o bare \o <<"]">>

\* key_u.startswith("PLC_") and key_u.endswith("_TYPE")
IsTypeKey(k) == k[1] = "PLC_" /\ k[Len(k)] = "_TYPE"
\* raw_name = key_u.replace("PLC_", "").replace("_TYPE", "")
raw_name(k) == RemoveAll(RemoveAll(k, "PLC_"), "_TYPE")
\* ip_key = f"PLC_{raw_name}_IP"
ip_key(k) == <<"PLC_">> \o raw_name(k) \o <<"_IP">>
\* `not ip_val`: os.getenv gave None or ""
NoIp(k) == IF ip_key(k) \in DOMAIN environ THEN environ[ip_key(k)] = "" ELSE TRUE

\* the environments: any of the names declared by a type key, each with
\* its address key absent or holding one of the texts
EnvOf(D, f) ==
  [k \in {TypeKey(n) : n \in D} \cup {IpKey(n) : n \in {m \in D : f[m] # "absent"}} |->
     IF k[Len(k)] = "_TYPE" THEN TypeText ELSE f[SubSeq(k, 2, Len(k) - 1)]]
Environments ==
  UNION {{EnvOf(D, f) : f \in [D -> IpTexts \cup {"absent"}]} : D \in SUBSET DeviceNames}

DiscoveryInit ==
  /\ MainInit
  /\ tag_map = CatalogPlain
  /\ log_dir = {} /\ purge_pc = "idle" /\ purge_now = [day |-> 0, tod |-> 0]
  /\ purge_listed = {} /\ purge_todo = {} /\ purge_err = NoError
  /\ environ \in Environments
  /\ env_todo = {} /\ plcs = <<>> /\ warned = {} /\ disc_pc = "idle"
  /\ sheet = <<>> /\ cat_row = 2 /\ cat_map = <<>> /\ cat_pc = "idle"

\* plcs = {}; os.environ.items()
DiscoverBegin ==
  /\ disc_pc = "idle"
  /\ disc_pc' = "loop"
  /\ env_todo' = DOMAIN environ
  /\ UNCHANGED <<environ, plcs, warned, purgev, catv, clock, tag_map, mainv,
                 all_results, sinkv, workerv, histv>>

\* a key that is no type key
DiscoverOther(k) ==
  /\ disc_pc = "loop" /\ k \in env_todo
  /\ ~IsTypeKey(k)
  /\ env_todo' = env_todo \ {k}
  /\ UNCHANGED <<environ, plcs, warned, disc_pc, purgev, catv, clock, tag_map,
                 mainv, all_results, sinkv, workerv, histv>>

\* a type key whose address lookup gives nothing: warn and continue
DiscoverWarn(k) ==
  /\ disc_pc = "loop" /\ k \in env_todo
  /\ IsTypeKey(k) /\ NoIp(k)
  /\ warned' = warned \cup {raw_name(k)}
  /\ env_todo' = env_todo \ {k}
  /\ UNCHANGED <<environ, plcs, disc_pc, purgev, catv, clock, tag_map, mainv,
                 all_results, sinkv, workerv, histv>>

\* a type key with an address: plcs[normalized_name] = {...}
DiscoverAdd(k) ==
  /\ disc_pc = "loop" /\ k \in env_todo
  /\ IsTypeKey(k) /\ ~NoIp(k)
  /\ LET name == normalize_plc_name(raw_name(k))
         info == [type |-> upper(strip(environ[k])), ip |-> strip(environ[ip_key(k)])]
     IN  plcs' = [x \in DOMAIN plcs \cup {name} |-> IF x = name THEN info ELSE plcs[x]]
  /\ env_todo' = env_todo \ {k}
  /\ UNCHANGED <<environ, warned, disc_pc, purgev, catv, clock, tag_map, mainv,
                 all_results, sinkv, workerv, histv>>

\* return plcs
DiscoverReturn ==
  /\ disc_pc = "loop" /\ env_todo = {}
  /\ disc_pc' = "done"
  /\ UNCHANGED <<environ, env_todo, plcs, warned, purgev, catv, clock, tag_map,
                 mainv, all_results, sinkv, workerv, histv>>

DiscoveryNext ==
  \/ DiscoverBegin
  \/ \E k \in DOMAIN environ : DiscoverOther(k)
  \/ \E k \in DOMAIN environ : DiscoverWarn(k)
  \/ \E k \in DOMAIN environ : DiscoverAdd(k)
  \/ DiscoverReturn

DiscoverySpec == DiscoveryInit /\ [][DiscoveryNext]_vars

(***************************************************************************)
(* load_excel_tags: the tag catalog loader                                 *)
(***************************************************************************)
\* the PLC cell of a row (pieces of text as above; <<>> is an empty cell)
PlcCells == {<<"A">>, <<"::", "[", "B", "]">>, <<>>}
\* the tag-name cell of a row: a text, or "" for an empty cell
TagCells == {"", "N7:0", " Flow "}
\* the worksheets: row 2 is sheet[1]; the index cell of a row is filled
Sheets == [1..SheetRows -> [plc : PlcCells, tag : TagCells]]
\* ws.cell(row=row, ...): the rows below the last one are empty
CellsOf(row) == IF row - 1 \in DOMAIN sheet THEN sheet[row - 1]
                                            ELSE [plc |-> <<>>, tag |-> ""]
IndexCell(row) == row + 8

CatalogInit ==
  /\ MainInit
  /\ tag_map = CatalogPlain
  /\ log_dir = {} /\ purge_pc = "idle" /\ purge_now = [day |-> 0, tod |-> 0]
  /\ purge_listed = {} /\ purge_todo = {} /\ purge_err = NoError
  /\ environ = <<>> /\ env_todo = {} /\ plcs = <<>> /\ warned = {} /\ disc_pc = "idle"
  /\ sheet \in Sheets
  /\ cat_row = 2 /\ cat_map = <<>> /\ cat_pc = "idle"

\* the workbook is open; tag_map = {}; row = 2
CatalogBegin ==
  /\ cat_pc = "idle"
  /\ cat_pc' = "loop" /\ cat_row' = 2 /\ cat_map' = <<>>
  /\ UNCHANGED <<sheet, purgev, discv, clock, tag_map, mainv, all_results, sinkv,
                 workerv, histv>>

\* `if not tag_cell: break`, then return
CatalogStop ==
  /\ cat_pc = "loop"
  /\ CellsOf(cat_row).tag = ""
  /\ cat_pc' = "done"
  /\ UNCHANGED <<sheet, cat_row, cat_map, purgev, discv, clock, tag_map, mainv,
                 all_results, sinkv, workerv, histv>>

\* one more descriptor under the row's normalized PLC name; row += 1
CatalogRow ==
  /\ cat_pc = "loop"
  /\ CellsOf(cat_row).tag # ""
  /\ LET plc_name == normalize_plc_name(CellsOf(cat_row).plc)
         t == Tag(cat_row, strip(CellsOf(cat_row).tag), IndexCell(cat_row))
     IN  cat_map' = [x \in DOMAIN cat_map \cup {plc_name} |->
                       IF x = plc_name
                       THEN (IF x \in DOMAIN cat_map THEN Append(cat_map[x], t) ELSE <<t>>)
                       ELSE cat_map[x]]
  /\ cat_row' = cat_row + 1
  /\ UNCHANGED <<sheet, cat_pc, purgev, discv, clock, tag_map, mainv, all_results,
                 sinkv, workerv, histv>>

CatalogNext ==
  \/ CatalogBegin
  \/ CatalogStop
  \/ CatalogRow

CatalogSpec == CatalogInit /\ [][CatalogNext]_vars

(***************************************************************************)
(* The claims                                                              *)
(***************************************************************************)
RECURSIVE SumTags(_)
SumTags(S) == IF S = {} THEN 0
              ELSE LET p == CHOOSE x \in S : TRUE
                   IN  Len(TagsOf(p)) + SumTags(S \ {p})

\* the results of PLC p in the bucket, in bucket order
BucketOf(p) == SelectSeq(all_results, LAMBDA r : r.plc = p)
\* the rows of PLC p committed by this cycle
RowsOf(p) == SelectSeq(sql_cycle, LAMBDA r : r.PLC = p)
\* the cycle has passed the join
Joined == pc \in {"sort", "write", "commit", "save", "sleep"}
\* the cycle has committed and saved
Persisted == pc = "sleep"
\* the tag index of the catalog row a cell write went to
RowIndex(row) ==
  LET t == CHOOSE t \in UNION {Range(tag_map[p]) : p \in DOMAIN tag_map} : t.row = row
  IN  t.tag_index
NonDecreasing(s) == \A i \in 1..(Len(s) - 1) : s[i] <= s[i + 1]
IndexSeq(rows) == [i \in 1..Len(rows) |-> rows[i].TagIndex]
CellIndexSeq(cells) == [i \in 1..Len(cells) |-> RowIndex(cells[i].row)]
\* p's bucket holds exactly one result per catalog tag, all with this status
\* and no value
OnePerTag(p, st) ==
  /\ Len(BucketOf(p)) = Len(TagsOf(p))
  /\ \A i \in 1..Len(TagsOf(p)) :
       Cardinality({k \in 1..Len(BucketOf(p)) : BucketOf(p)[k].tag = TagsOf(p)[i]}) = 1
  /\ \A k \in 1..Len(BucketOf(p)) :
       BucketOf(p)[k].status = st /\ BucketOf(p)[k].value = NoneVal

\* C1: in every persisted cycle the number of committed rows is the sum of the
\* catalog tag counts of the configured PLCs that have tags, every catalog tag
\* appearing in exactly one row, whatever the devices did.
C1_EveryTagPersisted ==
  Persisted =>
    /\ Len(sql_cycle) = SumTags(Workers)
    /\ \A p \in Workers : \A i \in 1..Len(TagsOf(p)) :
         Cardinality({k \in 1..Len(sql_cycle) :
                        /\ sql_cycle[k].PLC = p
                        /\ sql_cycle[k].TagName = TagsOf(p)[i].tag_name}) = 1

\* C2: the daily restart is triggered at most once on any calendar date (the
\* count starts anew with each date), the re-launched image's loop included.
C2_RestartAtMostOncePerDate == restartCount <= 1

\* C3: a failure of the relational store (connect, insert or commit) never
\* ends the process: the loop goes on to the next cycle.
C3_StoreFailureDoesNotTerminate ==
  termCause \notin {"sql_connect", "sql_insert", "sql_commit"}

\* C4: no fault raised inside the control loop (sort, save, re-exec, store)
\* ends the process: the loop boundary catches it and retries.
C4_LoopFaultNeverTerminates == pc # "terminated"

\* C5: in every cycle, the rows executed, the rows committed and the worksheet
\* rows updated are in non-decreasing tag-index order.
C5_PersistedOrderNonDecreasing ==
  /\ NonDecreasing(IndexSeq(sql_tx))
  /\ NonDecreasing(IndexSeq(sql_cycle))
  /\ NonDecreasing(CellIndexSeq(ws_dirty))
  /\ pc \in {"write", "commit", "save", "sleep"} =>
       NonDecreasing([i \in 1..Len(all_results) |-> all_results[i].tag.tag_index])

\* a cycle of the plain catalog persisted three rows, the row of "[B]" (index 5)
\* ahead of the rows of "[A]", whose worker is started first
C5_Witness ==
  /\ Persisted /\ Len(sql_cycle) = 3
  /\ sql_cycle[1].PLC = "[B]" /\ sql_cycle[1].TagIndex = 5
  /\ sql_cycle[2].TagIndex = 10 /\ sql_cycle[3].TagIndex = 11

\* C6: a PLC whose ping fails makes no read attempt in that cycle, and its
\* worker ends with exactly one OFFLINE result without value per catalog tag,
\* which is what the cycle commits for it.
C6_ProbeFailureGivesOffline ==
  \A p \in PlcNames :
    (probe[p] # "unset" /\ ping(probe[p]) = "False") =>
      /\ attempts[p] = 0
      /\ wpc[p] \in {"emit", "done"}
      /\ wpc[p] = "done" => OnePerTag(p, "OFFLINE")
      /\ Persisted =>
           /\ Len(RowsOf(p)) = Len(TagsOf(p))
           /\ \A k \in 1..Len(RowsOf(p)) :
                RowsOf(p)[k].Status = "OFFLINE" /\ RowsOf(p)[k].TagValue = "NULL"

\* a persisted cycle in which "[A]" (two tags) failed its probe and "[B]" was read
C6_Witness ==
  /\ Persisted
  /\ probe["[A]"] = "nottl" /\ probe["[B]"] = "ttl"
  /\ Len(RowsOf("[A]")) = 2

\* C7: a PLC that passes the probe and whose adapter raises on every attempt
\* has made exactly Retries attempts when its worker ends, and has one
\* NO RESPONSE result without value per catalog tag; no adapter ever makes
\* more than Retries attempts.
C7_AllAttemptsFaultGivesNoResponse ==
  \A p \in PlcNames :
    /\ attempts[p] <= Retries
    /\ (wpc[p] = "done" /\ ping(probe[p]) = "True" /\ faults[p] = attempts[p]) =>
         /\ attempts[p] = Retries
         /\ OnePerTag(p, "NO RESPONSE")

\* both adapters (MICROLOGIX "[A]", Logix "[B]") raised on all three attempts
C7_Witness ==
  /\ Joined
  /\ \A p \in {"[A]", "[B]"} : wpc[p] = "done" /\ faults[p] = Retries /\ attempts[p] = Retries

\* C8: no worker thread ever dies of an exception; once the join has passed,
\* every spawned worker has returned, and a worker whose probe raised or whose
\* every read attempt raised has put one failure result per tag in the bucket.
C8_WorkerFaultsContained ==
  /\ \A p \in PlcNames : wpc[p] # "crashed"
  /\ Joined =>
       \A p \in Workers :
         /\ wpc[p] = "done"
         /\ probe[p] = "raise" => OnePerTag(p, "OFFLINE")
         /\ (probe[p] = "ttl" /\ faults[p] = attempts[p]) => OnePerTag(p, "NO RESPONSE")

\* a persisted cycle in which the probe of "[A]" raised, and "[B]" was read at
\* the first attempt and has its row committed
C8_Witness ==
  /\ Persisted
  /\ probe["[A]"] = "raise" /\ Len(RowsOf("[A]")) = 2
  /\ probe["[B]"] = "ttl" /\ faults["[B]"] = 0 /\ Len(RowsOf("[B]")) = 1

\* C9: unless a sink refuses a write, every started cycle is eventually
\* persisted and after every persisted cycle another one is eventually started.
SinkFault == termCause \in {"sql_connect", "sql_insert", "sql_commit", "save"}
C9_ServiceStaysAlive ==
  /\ [](pc = "spawn" => <>(Persisted \/ SinkFault))
  /\ [](Persisted => <>(pc = "spawn" \/ SinkFault))

\* C10: on every date whose 02:00 minute has gone by with the process running
\* (here: with the loop inside a cycle or its idle pause), a restart was
\* triggered on that date.
C10_RestartOnEveryDate == passedTwo => restartCount >= 1

(* ------------------------------ the sinks ------------------------------ *)
\* the value column of a row of the store against the result it was made from
ValueWritten(r, row) ==
  /\ r.value = BoolTrue  => row.TagValue = "1"
  /\ r.value = BoolFalse => row.TagValue = "0"
  /\ r.value = NoneVal   => row.TagValue = "NULL"
  /\ r.value = Float32   => row.TagValue = "3.2"
  /\ row.TagValue \notin {"True", "False", "None"}

\* C12: every row handed to the store (executed, and committed) carries "1"
\* for a true result, "0" for a false one, the null marker for an absent
\* value and the string form of any other value, never "True" or "False"
C12_BoolAsDigitNoneAsNull ==
  /\ Len(sql_tx) <= Len(all_results) /\ Len(sql_cycle) <= Len(all_results)
  /\ \A k \in 1..Len(sql_tx) : ValueWritten(all_results[k], sql_tx[k])
  /\ \A k \in 1..Len(sql_cycle) : ValueWritten(all_results[k], sql_cycle[k])

\* a committed cycle with a false result, an absent value and a float
C12_Witness ==
  /\ Persisted
  /\ \E k \in 1..Len(sql_cycle) :
        all_results[k].value = BoolFalse /\ sql_cycle[k].TagValue = "0"
  /\ \E k \in 1..Len(sql_cycle) :
        all_results[k].value = NoneVal /\ sql_cycle[k].TagValue = "NULL"
  /\ \E k \in 1..Len(sql_cycle) :
        all_results[k].value = Float32 /\ sql_cycle[k].TagValue = "3.2"

(* ----------------------------- the scenario ---------------------------- *)
\* A answers the probe and its read returns 3.2, OK for both of its tags; B
\* does not answer the probe
ScenarioAB ==
  /\ tag_map = CatalogPlain
  /\ probe["[A]"] = "ttl"
  /\ results["[A]"] = <<Result("", Float32, "OK", Tag(2, "N7:0", 10)),
                        Result("", Float32, "OK", Tag(3, "N7:1", 11))>>
  /\ probe["[B]"] \in {"nottl", "raise"}

ScenarioRows ==
  <<[PLC |-> "[B]", TagIndex |-> 5, TagName |-> "Flow", TagValue |-> "NULL",
     Status |-> "OFFLINE"],
    [PLC |-> "[A]", TagIndex |-> 10, TagName |-> "N7:0", TagValue |-> "3.2",
     Status |-> "OK"],
    [PLC |-> "[A]", TagIndex |-> 11, TagName |-> "N7:1", TagValue |-> "3.2",
     Status |-> "OK"]>>

\* C13: with A (indices 10, 11) reachable and reading 3.2, OK twice and B
\* (index 5) unreachable, the cycle committed to the store is exactly
\* (5, B, null, OFFLINE), (10, A, "3.2", OK), (11, A, "3.2", OK), whichever
\* worker appended first; the worksheet cells are written in the same order
C13_EndToEndScenario ==
  ScenarioAB =>
    /\ pc \in {"save", "sleep"} => sql_cycle = ScenarioRows
    /\ pc = "save" =>
          ws_dirty = <<[row |-> 4, value |-> NoneVal, status |-> "OFFLINE"],
                       [row |-> 2, value |-> Float32, status |-> "OK"],
                       [row |-> 3, value |-> Float32, status |-> "OK"]>>

C13_Witness == ScenarioAB /\ Persisted /\ sql_cycle = ScenarioRows

(* ----------------------------- determinism ----------------------------- *)
\* what worker p returned, stamped with its name
Stamped(p) == [i \in 1..Len(results[p]) |-> [results[p][i] EXCEPT !.plc = p]]
\* the rows of the cycle had the workers appended one after the other, in
\* the order of the registry
RegistryOrderRows ==
  LET s == sorted(Stamped("[A]") \o Stamped("[B]") \o Stamped("[C]"))
  IN  [i \in 1..Len(s) |-> SqlRow(s[i])]

\* C14: the committed sequence of a cycle is a function of the catalog and
\* of what each worker returned alone: it is the one the registry-order
\* appends give, whatever the order in which the workers appended, also
\* when two PLCs carry the same tag index
C14_OrderIndependentOfInterleaving ==
  Persisted => sql_cycle = RegistryOrderRows

(* ------------------------------ the join ------------------------------- *)
\* worker p does not exist, or has returned (or died) with every result of
\* its read appended
Quiet(p) ==
  /\ wpc[p] \in {"none", "done", "crashed"}
  /\ wpc[p] = "done" => emit_i[p] > Len(results[p])
\* the merge of the cycle has started, or a sink holds something of it
MergeStarted ==
  Joined \/ sql_tx # <<>> \/ sql_cycle # <<>> \/ ws_dirty # <<>>

\* C15: from the sort on, and whenever either sink holds a write of the
\* cycle, every worker spawned in the cycle has completed and none can
\* append any more; while a spawned worker has not completed the cycle
\* stays before the sort
C15_FullJoinBeforeMerge ==
  /\ MergeStarted =>
        /\ \A p \in PlcNames : Quiet(p)
        /\ \A i \in 1..Len(threads) : wpc[threads[i]] \in {"done", "crashed"}
  /\ (\E p \in PlcNames : wpc[p] \in {"ping", "read", "emit"}) =>
        pc \in {"spawn", "join"}

\* the write loop is under way after two workers were joined
C15_Witness ==
  /\ pc = "write" /\ sql_tx # <<>> /\ ws_dirty # <<>>
  /\ Len(threads) = 2
  /\ \A i \in 1..Len(threads) : wpc[threads[i]] = "done"

(* ----------------------------- the fan-out ----------------------------- *)
\* the number of threads started for p in this cycle
ThreadsOf(p) == Cardinality({i \in 1..Len(threads) : threads[i] = p})

\* C16: of the configured PLCs the spawn loop has gone through, each one
\* with catalog entries has exactly one worker thread and no skip notice,
\* each one without has no thread and a logged skip notice, and the skip
\* raises no error; a PLC the loop has not reached has neither
C16_OneWorkerPerCataloguedDevice ==
  /\ \A i \in 1..Len(PlcOrder) :
       LET p == PlcOrder[i] IN
         IF i >= spawn_i
         THEN ThreadsOf(p) = 0 /\ wpc[p] = "none" /\ p \notin skip_log
         ELSE IF p \in DOMAIN tag_map /\ Len(tag_map[p]) >= 1
         THEN ThreadsOf(p) = 1 /\ wpc[p] # "none" /\ p \notin skip_log
         ELSE ThreadsOf(p) = 0 /\ wpc[p] = "none" /\ p \in skip_log
  /\ pc \in {"spawn", "join"} => termCause = "none"

\* the loop is through: two threads, and the PLC without entries skipped
C16_Witness ==
  /\ pc = "join"
  /\ ThreadsOf("[A]") = 1 /\ ThreadsOf("[B]") = 1 /\ ThreadsOf("[C]") = 0
  /\ skip_log = {"[C]"}

(* ---------------------------- the retry loop --------------------------- *)
\* the adapter of p has returned to its worker
Returned(p) == probe[p] = "ttl" /\ wpc[p] \in {"emit", "done"}
\* what the adapter returned is the result set of one driver response
FromOneAttempt(p) ==
  \E o \in ReadOutcomes(p) :
     ~o.raised /\ results[p] = AdapterResults(p, o.resp, TagsOf(p))

\* C18: an adapter makes at most `retries` (3) attempts; while it is still
\* trying every attempt so far has faulted; when it has returned, either
\* all 3 attempts faulted, or the last attempt made is the only one that
\* did not fault (k - 1 faults, k attempts) and the returned results are
\* those of that one attempt; an adapter is not called without a probe
\* answer
C18_FirstSuccessReturns ==
  \A p \in PlcNames :
     /\ attempts[p] <= Retries /\ faults[p] <= attempts[p]
     /\ wpc[p] = "read" =>
           faults[p] = attempts[p] /\ attempts[p] < Retries /\ results[p] = <<>>
     /\ Returned(p) =>
           \/ /\ faults[p] = Retries /\ attempts[p] = Retries
              /\ results[p] = NoResponse(TagsOf(p))
           \/ /\ attempts[p] = faults[p] + 1
              /\ FromOneAttempt(p)
     /\ probe[p] # "ttl" => attempts[p] = 0

\* A's adapter returned both results from its second attempt
C18_Witness ==
  /\ Returned("[A]")
  /\ attempts["[A]"] = 2 /\ faults["[A]"] = 1
  /\ Len(results["[A]"]) = 2 /\ results["[A]"][1].value = Float32

(* --------------------------- the daily restart ------------------------- *)
\* this step triggers the restart (os.execv is called)
RestartTriggered == restartCount' > restartCount

\* C19: a step that triggers the restart is taken by the control thread at
\* the restart check at the top of the loop, with no worker thread alive,
\* the store connection closed, no row executed and uncommitted, and no
\* worksheet cell written and unsaved
C19_RestartOnlyBetweenCycles ==
  [][RestartTriggered =>
       /\ pc = "check"
       /\ \A p \in PlcNames : wpc[p] = "none"
       /\ threads = <<>> /\ all_results = <<>>
       /\ conn = "closed"
       /\ sql_tx = <<>> /\ ws_dirty = <<>>]_vars

\* the new image is starting after a restart triggered on the second date
C19_Witness ==
  /\ pc = "boot" /\ restartCount = 1 /\ last_restart_date = date
  /\ date = 2 /\ conn = "closed"

(* -------------------------- the store connection ----------------------- *)
\* C20: at the idle pause, at the restart check and at the start of a scan
\* no store connection is open, and none is left open by a cycle in which
\* an insert or the commit failed
C20_ConnectionClosedEveryCycle ==
  (pc \in {"boot", "check", "scan", "sleep"} \/ termCause \in {"sql_insert", "sql_commit"})
     => conn = "closed"

(* ------------------------------ the save ------------------------------- *)
\* the cells of every result of the cycle have been set at the result
\* tag's source row, in the order of the sorted results, and none is saved
AllCellsWritten ==
  /\ Len(ws_dirty) = Len(all_results)
  /\ \A i \in 1..Len(all_results) :
       /\ ws_dirty[i].row = all_results[i].tag.row
       /\ ws_dirty[i].status = all_results[i].status
       /\ ws_dirty[i].value = excel_value(all_results[i].value)

\* C21: the workbook is saved at most once in a cycle and exactly once in
\* a cycle that reaches its idle pause; the save is taken only when the
\* cells of every result of the cycle are written, and no save has been
\* made while the write loop, the commit or the save is still ahead
C21_SavedOnceAfterAllCells ==
  /\ [](/\ saves <= 1
        /\ Persisted => (saves = 1 /\ ws_dirty = <<>>)
        /\ pc \in {"spawn", "join", "sort", "write", "commit", "save"} => saves = 0)
  /\ [][saves' > saves => (pc = "save" /\ saves = 0 /\ AllCellsWritten)]_vars

\* a cycle of three results has been saved
C21_Witness == Persisted /\ saves = 1 /\ Len(all_results) = 3

(* ------------------------------ the commit ----------------------------- *)
\* one row for every result of the cycle, in the order of the write loop
AllRows == [i \in 1..Len(all_results) |-> SqlRow(all_results[i])]

\* C24: the rows of the cycle that are committed to the store are none of
\* them or all of them, never a proper prefix: none while inserts are
\* executed and uncommitted, none after a cycle that failed on an insert
\* or on the commit, all at the idle pause; and the step that commits is
\* taken after the insert of the last result
C24_CommitAllOrNothing ==
  /\ [](/\ sql_cycle = <<>> \/ sql_cycle = AllRows
        /\ sql_tx # <<>> => sql_cycle = <<>>
        /\ termCause \in {"sql_insert", "sql_commit"} => sql_cycle = <<>>
        /\ Persisted => sql_cycle = AllRows)
  /\ [][sql_cycle' # sql_cycle /\ sql_cycle' # <<>> =>
          (pc = "commit" /\ write_i = Len(all_results) + 1 /\ sql_tx = AllRows)]_vars

\* a cycle failed on an insert after an earlier insert was executed
C24_Witness ==
  /\ termCause = "sql_insert"
  /\ sql_tx # <<>> /\ Len(sql_tx) < Len(all_results)
  /\ sql_cycle = <<>>

(* ----------------------------- the collector -------------------------- *)
\* the results worker p has appended so far
Appended(p) == {Stamped(p)[j] : j \in 1..(emit_i[p] - 1)}

\* C25: every result in the collector carries the name of a PLC with a
\* worker in this cycle and a tag of that PLC's own catalog list; the
\* results under a name are exactly those its own worker has appended in
\* this cycle, each once; and the collector is empty from the idle pause's
\* end until the first append of the next cycle
C25_NoContaminationNoCarryOver ==
  /\ \A i \in 1..Len(all_results) :
       LET r == all_results[i] IN
         /\ r.plc \in DOMAIN tag_map /\ wpc[r.plc] \in {"emit", "done"}
         /\ \E j \in 1..Len(tag_map[r.plc]) : tag_map[r.plc][j] = r.tag
  /\ \A p \in PlcNames :
       /\ Len(BucketOf(p)) = emit_i[p] - 1
       /\ Range(BucketOf(p)) = Appended(p)
  /\ (pc \in {"boot", "check", "scan"} \/ (pc = "spawn" /\ threads = <<>>))
        => all_results = <<>>

\* both workers' results are in the collector at the sort
C25_Witness ==
  /\ pc = "sort"
  /\ Len(BucketOf("[A]")) = 2 /\ Len(BucketOf("[B]")) = 1
  /\ probe["[A]"] = "ttl" /\ probe["[B]"] = "nottl"

(* ------------------------- the retention sweep ------------------------- *)
\* the sweep has returned
Swept == purge_pc = "done"
\* the listed partitions that are days_keep days old or older
OutOfWindow == {f \in purge_listed :
                  f.named /\ ~ParseFails(f) /\ purge_now.day - f.day >= DaysKeep}

\* C11: a sweep in which nothing fails deletes every listed date partition
\* that is days_keep (7) or more days old and keeps all other files,
\* whatever the time of day: run on day 10 over the partitions of days 1,
\* 3, 9 and 10 it deletes those of days 1 and 3 and keeps those of 9 and 10
C11_SevenDayWindow ==
  (Swept /\ purge_err = NoError) =>
     /\ log_dir = purge_listed \ OutOfWindow
     /\ (purge_now.day = 10 /\ purge_listed = AllFiles) =>
           /\ LogFile(1) \notin log_dir /\ LogFile(3) \notin log_dir
           /\ LogFile(9) \in log_dir /\ LogFile(10) \in log_dir

\* C17: a sweep that could list the directory deletes every partition its
\* cutoff expires, except one whose own delete failed, and keeps the files
\* whose date does not parse; it always returns
C17_SweepContinuesPastFailures ==
  (Swept /\ purge_err.kind # "listdir") =>
     \A f \in purge_listed :
        /\ (Expired(f, purge_now) /\ purge_err # [kind |-> "remove", file |-> f])
              => f \notin log_dir
        /\ ~Expired(f, purge_now) => f \in log_dir

(* --------------------------- device discovery -------------------------- *)
\* the device names a type key declares
Declared == {n \in DeviceNames : TypeKey(n) \in DOMAIN environ}
\* the address key of n is there and not empty
HasAddress(n) == IpKey(n) \in DOMAIN environ /\ environ[IpKey(n)] # ""

\* C22: when discovery has returned, a declared device whose address key
\* is absent or empty is not in the registry and was warned about; a
\* declared device with an address is in the registry under its normalized
\* name with that address; and every registry entry is such a device
C22_DiscoverySkipsMissingAddress ==
  disc_pc = "done" =>
    /\ \A n \in Declared :
         IF HasAddress(n)
         THEN /\ normalize_plc_name(n) \in DOMAIN plcs
              /\ plcs[normalize_plc_name(n)].ip = strip(environ[IpKey(n)])
         ELSE /\ normalize_plc_name(n) \notin DOMAIN plcs
              /\ raw_name(TypeKey(n)) \in warned
    /\ \A x \in DOMAIN plcs :
         \E n \in Declared : HasAddress(n) /\ x = normalize_plc_name(n)

(* --------------------------- the catalog loader ------------------------ *)
\* the first worksheet row whose tag-name cell is empty
FirstEmptyRow ==
  LET E == {i \in 1..Len(sheet) : sheet[i].tag = ""}
  IN  IF E = {} THEN Len(sheet) + 2 ELSE (CHOOSE i \in E : \A j \in E : i <= j) + 1
\* the PLC name a row's PLC cell stands for
NameOfCell(c) == CASE c = <<"A">> -> <<"[", "A", "]">>
                   [] c = <<"::", "[", "B", "]">> -> <<"[", "B", "]">>
                   [] OTHER -> <<>>
TextOfCell(c) == IF c = " Flow " THEN "Flow" ELSE c
\* the descriptors loaded for worksheet row r, as (name, position) pairs
LoadedFor(r) ==
  {<<x, i>> \in UNION {{x} \X DOMAIN cat_map[x] : x \in DOMAIN cat_map} :
     cat_map[x][i].row = r}

\* C23: when the loader has returned, every worksheet row from row 2 up to
\* the first row with an empty tag-name cell has exactly one descriptor,
\* under the normalized name of its PLC cell, with its own row number and
\* its stripped tag name; the descriptors of a PLC are in row order; and
\* no row at or below that first empty row has any, filled or not
C23_LoaderStopsAtFirstEmptyName ==
  cat_pc = "done" =>
    /\ cat_row = FirstEmptyRow
    /\ \A r \in 2..(Len(sheet) + 1) :
         IF r < FirstEmptyRow
         THEN /\ Cardinality(LoadedFor(r)) = 1
              /\ \A xi \in LoadedFor(r) :
                   /\ xi[1] = NameOfCell(sheet[r - 1].plc)
                   /\ cat_map[xi[1]][xi[2]].tag_name = TextOfCell(sheet[r - 1].tag)
         ELSE LoadedFor(r) = {}
    /\ \A x \in DOMAIN cat_map :
         /\ cat_map[x] # <<>>
         /\ \A i \in 1..Len(cat_map[x]) :
              /\ cat_map[x][i].row \in 2..(Len(sheet) + 1)
              /\ i > 1 => cat_map[x][i - 1].row < cat_map[x][i].row

\* the loader returned at an empty row 3 with row 4 filled
C23_Witness ==
  /\ cat_pc = "done"
  /\ sheet[1].tag # "" /\ sheet[2].tag = "" /\ sheet[3].tag # ""
  /\ sheet[1].plc = <<"::", "[", "B", "]">>
  /\ Cardinality(LoadedFor(2)) = 1 /\ LoadedFor(4) = {}

====
